---- MODULE Spec2Model ----
(***************************************************************************)
(* A model of the policy scraper: URL discovery (SitemapParser), relevance *)
(* filtering (URLFilter) and the orchestration of PolicyScraper.scrape.    *)
(*                                                                         *)
(* Text is modelled as a sequence of one-character strings, so that        *)
(* lower(), strip(), startswith() and the substring test are computed.     *)
(***************************************************************************)
EXTENDS Integers, Sequences, FiniteSets, TLC

VARIABLES
    args,               \* the parsed command line (main.py: args)
    mode,               \* URLFilter.mode
    manual_keywords,    \* URLFilter.manual_keywords
    urls,               \* _filter_urls_with_llm: the parameter urls
    i,                  \* _filter_urls_with_llm: the loop offset i
    all_relevant_urls,  \* _filter_urls_with_llm: the accumulator
    fpc,                \* position of the filter operation
    result,             \* the list the filter returned
    calls,              \* the batches submitted to the classifier endpoint
    contrib,            \* per batch: the answer and what the batch added
    base_url,           \* SitemapParser.base_url
    spc,                \* position of get_all_urls
    cand,               \* fetch_sitemap: index of the candidate path
    sitemap_content,    \* get_all_urls: sitemap_content
    sm_urls,            \* get_all_urls: urls
    sub,                \* get_all_urls: index of the sub-sitemap
    sm_all_urls,        \* get_all_urls: all_urls
    sm_result,          \* the list get_all_urls returned
    fetches,            \* the GET requests of the SitemapParser
    url,                \* scrape: the parameter url
    pc,                 \* position of PolicyScraper.scrape
    all_urls,           \* scrape: all_urls
    source_name,        \* scrape: source_name
    relevant_urls,      \* scrape: relevant_urls
    homepage_log,       \* the homepage fetches of get_homepage_links
    html_content,       \* _extract_links_from_html: the anchors' href values
    start_url,          \* filter_from_homepage: start_url, the base
    all_links,          \* filter_from_homepage: all_links
    lpc,                \* position of the link extraction
    threshold,          \* ask_question: threshold
    limit,              \* ask_question: limit
    verbose,            \* ask_question: verbose
    routing_threshold,  \* ask_question: routing_threshold
    all_docs,           \* ask_question: all_docs, by their similarity
    docs,               \* ask_question: docs
    rpc,                \* position of ask_question
    outcome,            \* what ask_question reported
    lookups,            \* the lookups of the similarity store
    generations,        \* the calls of the language model, by context
    conn,               \* DatabaseHandler.conn: "None" or "open"
    embedding_model,    \* DatabaseHandler.embedding_model: loaded or not
    dpc,                \* position of the operation of the DatabaseHandler
    op,                 \* the operation called last, with its arguments
    opened,             \* the connections the operation has opened
    returned,           \* what save_all returned
    db_results,         \* what search_similar or get_session_stats returned
    session_id,         \* save_all: session_id (0 stands for None)
    scrape_sessions,    \* the committed rows of table scrape_sessions
    scraped_pages,      \* the committed rows of table scraped_pages
    before,             \* the committed rows as the operation was called
    ops,                \* the number of operations called
    targets,            \* main: urls, the sites to scrape
    started,            \* the sites whose scrape was started, in order
    mpc,                \* position of main
    use_database,       \* args.use_database
    format,             \* args.format
    idx,                \* scrape: the number of relevant URLs visited
    scraped_data,       \* scrape: scraped_data
    visits,             \* the calls of ContentExtractor.extract of the run
    db_saves,           \* the calls of save_all made by scrape
    files,              \* the result files written
    outcomes            \* how the scrape runs ended

\* The configuration, fixed by PolicyScraper.__init__.
cvars == <<args, mode, manual_keywords>>

\* The filter operation.
fvars == <<urls, i, all_relevant_urls, fpc, result, calls, contrib>>

\* The sitemap resolver.
svars == <<base_url, spc, cand, sitemap_content, sm_urls, sub, sm_all_urls,
           sm_result, fetches>>

\* PolicyScraper.scrape.
pvars == <<url, pc, all_urls, source_name, relevant_urls, homepage_log>>

\* The link extraction of the homepage.
lvars == <<html_content, start_url, all_links, lpc>>

\* ask_question.
rvars == <<threshold, limit, verbose, routing_threshold, all_docs, docs, rpc,
           outcome, lookups, generations>>

\* The DatabaseHandler and the store behind it.
dvars == <<conn, embedding_model, dpc, op, opened, returned, db_results,
           session_id, scrape_sessions, scraped_pages, before, ops>>

\* main, and the extraction and saving phases of scrape.
xvars == <<targets, started, mpc, use_database, format, idx, scraped_data,
           visits, db_saves, files, outcomes>>

vars == <<cvars, fvars, svars, pvars, lvars, rvars, dvars, xvars>>

----------------------------------------------------------------------------
(* Bounds of the model.                                                    *)

\* Longest input list of which every content is enumerated.
MaxShort == 2

\* How far the long input lists run past two full batches.
MaxTail == 1

\* Most loc elements of a top-level sitemap document.
MaxLocs == 2

\* Most anchors of a homepage.
MaxAnchors == 2

\* Largest --max-sitemap of a scrape run.
MaxCap == 2

\* Most anchors of a document given to the link extraction on its own.
MaxHrefs == 3

\* Highest similarity score; the thresholds are drawn from the same range.
MaxScore == 2

\* Largest --limit, and with it the most rows of a lookup.
MaxLimit == 2

\* The operations called on one DatabaseHandler.
MaxOps == 3

----------------------------------------------------------------------------
(* Text.                                                                   *)

UpperChars == <<"A", "B", "C", "D", "E", "F", "G", "H", "I", "J", "K", "L", "M",
                "N", "O", "P", "Q", "R", "S", "T", "U", "V", "W", "X", "Y", "Z">>

LowerChars == <<"a", "b", "c", "d", "e", "f", "g", "h", "i", "j", "k", "l", "m",
                "n", "o", "p", "q", "r", "s", "t", "u", "v", "w", "x", "y", "z">>

LowerChar(c) ==
    IF \E k \in 1..Len(UpperChars) : UpperChars[k] = c
    THEN LowerChars[CHOOSE k \in 1..Len(UpperChars) : UpperChars[k] = c]
    ELSE c

\* str.lower()
Lower(s) == [k \in 1..Len(s) |-> LowerChar(s[k])]

\* part in s
Contains(s, part) ==
    \E k \in 1..(Len(s) - Len(part) + 1) : SubSeq(s, k, k + Len(part) - 1) = part

SeqToSet(s) == {s[k] : k \in 1..Len(s)}

NoDuplicates(s) == \A a, b \in 1..Len(s) : s[a] = s[b] => a = b

Min(a, b) == IF a <= b THEN a ELSE b

\* The URLs of the modelled site and one URL no input list holds.
UrlPrivacy == <<"h", "t", "t", "p", ":", "/", "/", "x", "/", "P", "r", "i", "v", "a", "c", "y">>
UrlShop == <<"h", "t", "t", "p", ":", "/", "/", "x", "/", "s", "h", "o", "p">>
UrlForeign == <<"h", "t", "t", "p", ":", "/", "/", "e", "/", "t", "o", "s">>

\* A list element that is a JSON object (in Python a dict, which is
\* unhashable); it is no text: its only entry is not one character.
ObjectElem == <<"{}">>

Unhashable(e) == e = ObjectElem

----------------------------------------------------------------------------
(* URLFilter: keyword matching.                                            *)

DefaultKeywords == <<
    <<"p", "r", "i", "v", "a", "c", "y">>,
    <<"p", "o", "l", "i", "c", "y">>,
    <<"p", "o", "l", "i", "c", "i", "e", "s">>,
    <<"t", "e", "r", "m", "s">>,
    <<"l", "e", "g", "a", "l">>,
    <<"a", "b", "o", "u", "t">>,
    <<"c", "o", "n", "t", "a", "c", "t">>,
    <<"f", "a", "q">>,
    <<"h", "e", "l", "p">>,
    <<"s", "u", "p", "p", "o", "r", "t">>,
    <<"c", "o", "o", "k", "i", "e">>,
    <<"g", "d", "p", "r">>,
    <<"c", "o", "m", "p", "l", "i", "a", "n", "c", "e">>,
    <<"d", "a", "t", "a", "-", "p", "r", "o", "t", "e", "c", "t", "i", "o", "n">>,
    <<"a", "c", "c", "e", "p", "t", "a", "b", "l", "e", "-", "u", "s", "e">>,
    <<"t", "o", "s">>,
    <<"t", "e", "r", "m", "s", "-", "o", "f", "-", "s", "e", "r", "v", "i", "c", "e">>
>>

\* A keyword list a caller passes with --filter-manual.
CustomKeywords == << <<"s", "h", "o", "p">> >>

\* The test on the URL as written, without lower().
KeywordHitCaseSensitive(u, keywords) ==
    \E k \in 1..Len(keywords) : Contains(u, keywords[k])

\* any(keyword in url_lower for keyword in keywords)
KeywordHit(u, keywords) ==
    LET url_lower == Lower(u)
    IN  \E k \in 1..Len(keywords) : Contains(url_lower, keywords[k])

\* The loop of _keyword_fallback: the URLs with a hit, in list order.
KeywordMatch(list, keywords) ==
    LET hits == {u \in SeqToSet(list) : KeywordHit(u, keywords)}
    IN  SelectSeq(list, LAMBDA u : u \in hits)

\* _keyword_fallback(urls): the keyword list is the one written in it.
KeywordFallback(list) == KeywordMatch(list, DefaultKeywords)

----------------------------------------------------------------------------
(* PolicyScraper.__init__: the filter's configuration.                     *)

\* manual_keywords = None
NoKeywords == [some |-> FALSE, kws |-> <<>>]

\* mode="manual" if is_manual else "llm"
InitMode(a) == IF a.filter_manual.given THEN "manual" ELSE "llm"

\* The caller's keywords dropped.
InitManualKeywordsNever(a) == NoKeywords

\* manual_keywords=args.filter_manual if (is_manual and len(...) > 0) else None
InitManualKeywords(a) ==
    IF a.filter_manual.given /\ Len(a.filter_manual.kws) > 0
    THEN [some |-> TRUE, kws |-> a.filter_manual.kws]
    ELSE NoKeywords

\* The keyword set of the run: the caller's list when given, else the default.
ConfiguredKeywords(mk) == IF mk.some THEN mk.kws ELSE DefaultKeywords

----------------------------------------------------------------------------
(* The classifier endpoint and URLFilter._call_llm_api.                    *)

batch_size == 100

\* A JSON value found under "relevant_urls". The items of a list are its
\* elements; the items of a str are its characters, each a str of length 1
\* (what iterating over a Python str yields).
JsonList(items) == [t |-> "list", items |-> items, n |-> 0]
JsonStr(chars)  ==
    [t |-> "str", items |-> [k \in 1..Len(chars) |-> <<chars[k]>>], n |-> 0]
JsonNum(n)      == [t |-> "num", items |-> <<>>, n |-> n]
JsonNull        == [t |-> "null", items |-> <<>>, n |-> 0]

\* Python's truth value of a JSON value.
Truthy(v) ==
    CASE v.t \in {"list", "str"} -> v.items # <<>>
      [] v.t = "num" -> v.n # 0
      [] OTHER -> FALSE

\* len(v) is defined.
HasLen(v) == v.t \in {"list", "str"}

\* What list.extend(v) appends: the items of a list, the characters of a str.
Extended(v) == v.items

\* What the endpoint can answer: no answer at all, or a status and a body;
\* the body's "response" text is unparseable, a JSON array, or a JSON
\* object with or without the key "relevant_urls" (val: its value, or the
\* content of the array). "num": the object's "reasoning" is a number
\* other than 0, which reasoning[:100] cannot slice.
Answer(kind, status, shape, has, val) ==
    [kind |-> kind, status |-> status, shape |-> shape, has |-> has, val |-> val,
     reasoning |-> "str"]

NumberReasoning(ans) == [ans EXCEPT !.reasoning = "num"]

RelevantValues(batch) ==
    { JsonList(<<>>), JsonList(<<UrlForeign>>), JsonList(<<ObjectElem>>),
      JsonStr(<<"a">>), JsonNum(5), JsonNull }
    \cup (IF batch = <<>> THEN {}
          ELSE {JsonList(<<batch[1]>>), JsonList(<<batch[1], batch[1]>>)})

Answers(batch) ==
    { Answer("error", 0, "none", FALSE, JsonNull),
      Answer("http", 500, "none", FALSE, JsonNull),
      Answer("http", 200, "unparseable", FALSE, JsonNull),
      Answer("http", 200, "array", FALSE, JsonList(<<UrlForeign>>)),
      Answer("http", 200, "object", FALSE, JsonNull),
      NumberReasoning(Answer("http", 200, "object", TRUE, JsonList(<<UrlForeign>>))) }
    \cup { Answer("http", 200, "object", TRUE, v) : v \in RelevantValues(batch) }

\* The answers of the endpoint of a scrape run.
ScrapeAnswers(batch) ==
    { Answer("error", 0, "none", FALSE, JsonNull),
      Answer("http", 500, "none", FALSE, JsonNull),
      Answer("http", 200, "object", TRUE, JsonList(<<ObjectElem>>)) }
    \cup (IF batch = <<>> THEN {}
          ELSE {Answer("http", 200, "object", TRUE, JsonList(<<batch[1]>>))})

\* The answers an endpoint can give to a batch: any of them, or those of
\* the endpoint of a scrape run.
AnswersOf(endpoint, batch) ==
    IF endpoint = "any" THEN Answers(batch) ELSE ScrapeAnswers(batch)

Returned(v) == [raised |-> FALSE, val |-> v]
Raised == [raised |-> TRUE, val |-> JsonNull]

\* _call_llm_api: a failed request, an unparseable text, a text that is no
\* JSON object and an unsliceable reasoning raise (and the except clause
\* re-raises); a status other than 200 returns the empty list.
CallLlmApi(ans) ==
    IF ans.kind = "error" THEN Raised
    ELSE IF ans.status = 200
         THEN IF ans.shape # "object" \/ ans.reasoning = "num" THEN Raised
              ELSE Returned(IF ans.has THEN ans.val ELSE JsonList(<<>>))
         ELSE Returned(JsonList(<<>>))

----------------------------------------------------------------------------
(* URLFilter._filter_urls_with_llm.                                        *)

\* urls[i:i + batch_size]
Batch(list, off) == SubSeq(list, off + 1, Min(off + batch_size, Len(list)))

\* The body of the try statement ends in the except clause: the call
\* raised, or len() of the returned value did.
TryFails(r) == r.raised \/ (Truthy(r.val) /\ ~HasLen(r.val))

\* What one loop iteration appends to all_relevant_urls.
BatchAdds(batch, ans) ==
    LET r == CallLlmApi(ans) IN
    IF TryFails(r) THEN KeywordFallback(batch)
    ELSE IF Truthy(r.val) THEN Extended(r.val)
    ELSE <<>>

\* No test of the empty input.
EarlyReturnNever(list) == FALSE

\* if not urls: return []
EarlyReturn(list) == list = <<>>

\* range(0, len(urls) + 1, batch_size)
LoopContinuesInclusive(off, n) == off <= n

\* for i in range(0, len(urls), batch_size)
LoopContinues(off, n) == off < n

\* The orders in which list(set(...)) can list the elements of a set.
Orderings(S) ==
    {p \in [1..Cardinality(S) -> S] : \A a, b \in 1..Cardinality(S) : p[a] = p[b] => a = b}

\* The accumulator returned as it is.
ListSetKeepsAll(list) == {list}

\* list(set(list)): every element once, in an order Python does not fix.
ListSet(list) == Orderings(SeqToSet(list))

\* set(list) raises TypeError when an element is unhashable.
SetRaises(list) == \E k \in 1..Len(list) : Unhashable(list[k])

----------------------------------------------------------------------------
(* The filter operation, step by step.                                     *)

\* filter_urls(all_urls): keyword mode matches the whole list against the
\* configured keywords and issues no request; LLM mode classifies.
FilterUrls ==
    /\ fpc = "call"
    /\ IF mode = "manual"
       THEN /\ \E r \in ListSet(KeywordMatch(urls, ConfiguredKeywords(manual_keywords))) :
                  result' = r
            /\ fpc' = "done"
       ELSE /\ fpc' = "start"
            /\ UNCHANGED result
    /\ UNCHANGED <<urls, i, all_relevant_urls, calls, contrib>>
    /\ UNCHANGED <<cvars, svars, pvars, lvars, rvars, dvars, xvars>>

\* _filter_urls_with_llm, up to the loop.
FilterStart ==
    /\ fpc = "start"
    /\ IF EarlyReturn(urls)
       THEN /\ result' = <<>>
            /\ fpc' = "done"
            /\ UNCHANGED <<i, all_relevant_urls>>
       ELSE /\ i' = 0
            /\ all_relevant_urls' = <<>>
            /\ fpc' = "loop"
            /\ UNCHANGED result
    /\ UNCHANGED <<urls, calls, contrib>>
    /\ UNCHANGED <<cvars, svars, pvars, lvars, rvars, dvars, xvars>>

\* One iteration of the loop: the batch is posted to the classifier and
\* what the try statement or its except clause yields is appended.
FilterBatch(endpoint) ==
    /\ fpc = "loop"
    /\ LoopContinues(i, Len(urls))
    /\ \E ans \in AnswersOf(endpoint, Batch(urls, i)) :
          LET batch == Batch(urls, i)
              added == BatchAdds(batch, ans) IN
          /\ calls' = Append(calls, batch)
          /\ all_relevant_urls' = all_relevant_urls \o added
          /\ contrib' = Append(contrib,
                 [ans |-> ans, fallback |-> TryFails(CallLlmApi(ans)),
                  added |-> added])
    /\ i' = i + batch_size
    /\ UNCHANGED <<urls, fpc, result>>
    /\ UNCHANGED <<cvars, svars, pvars, lvars, rvars, dvars, xvars>>

\* return list(set(all_relevant_urls))
FilterReturn ==
    /\ fpc = "loop"
    /\ ~LoopContinues(i, Len(urls))
    /\ IF SetRaises(all_relevant_urls)
       THEN /\ fpc' = "raised"
            /\ UNCHANGED result
       ELSE /\ \E r \in ListSet(all_relevant_urls) : result' = r
            /\ fpc' = "done"
    /\ UNCHANGED <<urls, i, all_relevant_urls, calls, contrib>>
    /\ UNCHANGED <<cvars, svars, pvars, lvars, rvars, dvars, xvars>>

----------------------------------------------------------------------------
(* SitemapParser: documents and parsing.                                   *)

Whitespace == {" ", "\t", "\n"}

SetMin(S) == CHOOSE x \in S : \A y \in S : x <= y
SetMax(S) == CHOOSE x \in S : \A y \in S : x >= y

\* str.strip()
Strip(s) ==
    LET inked == {k \in 1..Len(s) : s[k] \notin Whitespace}
    IN  IF inked = {} THEN <<>> ELSE SubSeq(s, SetMin(inked), SetMax(inked))

\* str.rstrip('/')
RStripSlash(s) ==
    LET kept == {k \in 1..Len(s) : s[k] # "/"}
    IN  IF kept = {} THEN <<>> ELSE SubSeq(s, 1, SetMax(kept))

SiteUrl == <<"h", "t", "t", "p", ":", "/", "/", "x">>
SiteUrlSlash == <<"h", "t", "t", "p", ":", "/", "/", "x", "/">>

\* fetch_sitemap: the candidate paths, in the order written.
SitemapPaths == <<
    <<"/", "s", "i", "t", "e", "m", "a", "p", ".", "x", "m", "l">>,
    <<"/", "s", "i", "t", "e", "m", "a", "p", "_", "i", "n", "d", "e", "x", ".", "x", "m", "l">>,
    <<"/", "s", "i", "t", "e", "m", "a", "p", "-", "i", "n", "d", "e", "x", ".", "x", "m", "l">>
>>

CandidateUrl(base, k) == base \o SitemapPaths[k]

DotXml == <<".", "x", "m", "l">>

\* A loc element of a document: its namespace ("sm" the sitemap namespace,
\* "none" no namespace, "other" any other) and its text (has = FALSE: the
\* element has no text).
Loc(ns, has, text) == [ns |-> ns, has |-> has, text |-> text]

\* A response body: the empty text, a text that is no well-formed XML, or
\* an XML document with its loc elements in document order.
Body(kind, locs) == [kind |-> kind, locs |-> locs]

\* What a GET can yield: an exception (connection error, timeout, a body
\* that cannot be decoded) or a status and a body.
Outcome(kind, status, body) == [kind |-> kind, status |-> status, body |-> body]

\* Every answered request taken for a success.
FetchOkAnyStatus(out) == out.kind = "http"

\* response.status == 200
FetchOk(out) == out.kind = "http" /\ out.status = 200

\* ET.fromstring raises ParseError.
ParseError(body) == body.kind # "xml"

\* The stripped, non-empty texts of the loc elements of one namespace.
LocTexts(body, ns) ==
    LET texts == [k \in 1..Len(body.locs) |->
                    IF body.locs[k].ns = ns /\ body.locs[k].has
                    THEN Strip(body.locs[k].text)
                    ELSE <<>>]
    IN  SelectSeq(texts, LAMBDA t : t # <<>>)

\* parse_sitemap with both lookups always run, one after the other.
ParseSitemapBoth(body) ==
    IF ParseError(body) THEN [raised |-> FALSE, urls |-> <<>>]
    ELSE [raised |-> FALSE,
          urls |-> LocTexts(body, "sm") \o LocTexts(body, "none")]

\* parse_sitemap without its except clause.
ParseSitemapUncaught(body) ==
    IF ParseError(body) THEN [raised |-> TRUE, urls |-> <<>>]
    ELSE LET found == LocTexts(body, "sm")
         IN  [raised |-> FALSE,
              urls |-> IF found # <<>> THEN found ELSE LocTexts(body, "none")]

\* parse_sitemap: ParseError is caught and leaves urls empty; the lookup
\* without namespace runs only when the namespaced one found nothing.
ParseSitemap(body) ==
    IF ParseError(body) THEN [raised |-> FALSE, urls |-> <<>>]
    ELSE LET found == LocTexts(body, "sm")
         IN  [raised |-> FALSE,
              urls |-> IF found # <<>> THEN found ELSE LocTexts(body, "none")]

\* urls and all('.xml' in url for url in urls[:5])
IsIndex(list) ==
    /\ list # <<>>
    /\ \A k \in 1..Min(5, Len(list)) : Contains(list[k], DotXml)

\* The documents the site can serve.
TextPrivacy == <<" ", "h", "t", "t", "p", ":", "/", "/", "x", "/", "P", "r", "i", "v", "a", "c", "y", " ">>
TextSub == <<"h", "t", "t", "p", ":", "/", "/", "x", "/", "s", ".", "x", "m", "l">>
TextBlank == <<" ">>

\* The URL of the first candidate path of the site: an index that lists it
\* lists itself.
TextSelf == <<"h", "t", "t", "p", ":", "/", "/", "x", "/", "s", "i", "t", "e", "m", "a", "p", ".", "x", "m", "l">>

\* A page whose URL holds ".xml" but does not end with it.
TextMid == <<"h", "t", "t", "p", ":", "/", "/", "x", "/", "s", ".", "x", "m", "l", "/", "p">>

LocUniverse ==
    { Loc("sm", TRUE, TextPrivacy), Loc("sm", TRUE, TextSub),
      Loc("none", TRUE, UrlShop), Loc("sm", TRUE, TextBlank),
      Loc("sm", FALSE, <<>>), Loc("other", TRUE, UrlShop),
      Loc("sm", TRUE, TextMid) }

SubLocUniverse ==
    { Loc("sm", TRUE, TextPrivacy), Loc("sm", TRUE, TextSub),
      Loc("none", TRUE, UrlShop) }

BrokenBodies == {Body("empty", <<>>), Body("malformed", <<>>)}

TopBodies ==
    BrokenBodies \cup
    {Body("xml", l) : l \in UNION {[1..n -> LocUniverse] : n \in 0..MaxLocs}}

SubBodies ==
    {Body("malformed", <<>>)} \cup {Body("xml", <<l>>) : l \in SubLocUniverse}

Outcomes(bodies) ==
    { Outcome("error", 0, Body("empty", <<>>)),
      Outcome("http", 404, Body("empty", <<>>)) }
    \cup {Outcome("http", 200, b) : b \in bodies}

----------------------------------------------------------------------------
(* SitemapParser.get_all_urls, step by step.                               *)

\* A request as the log keeps it: the URL, what came back, and whether
\* the code took it for a success.
Fetched(u, out) == [url |-> u, ok |-> FetchOk(out), out |-> out]

\* fetch_sitemap: one candidate is requested. A 200 ends the loop with the
\* body; an exception or another status moves on to the next candidate,
\* and after the last one fetch_sitemap returns None and get_all_urls [].
FetchCandidate(bodies) ==
    /\ spc = "fetch"
    /\ cand <= Len(SitemapPaths)
    /\ \E out \in Outcomes(bodies) :
          /\ fetches' = Append(fetches, Fetched(CandidateUrl(base_url, cand), out))
          /\ IF FetchOk(out)
             THEN /\ sitemap_content' = out.body
                  /\ spc' = "parse"
                  /\ UNCHANGED <<cand, sm_result>>
             ELSE /\ cand' = cand + 1
                  /\ IF cand = Len(SitemapPaths)
                     THEN spc' = "done" /\ sm_result' = <<>>
                     ELSE UNCHANGED <<spc, sm_result>>
                  /\ UNCHANGED sitemap_content
    /\ UNCHANGED <<base_url, sm_urls, sub, sm_all_urls>>
    /\ UNCHANGED <<cvars, fvars, pvars, lvars, rvars, dvars, xvars>>

\* get_all_urls after fetch_sitemap returned a body: the empty text returns
\* []; otherwise the body is parsed, and the result is returned as it is or
\* taken as an index.
ParseTop ==
    /\ spc = "parse"
    /\ IF sitemap_content.kind = "empty"
       THEN /\ spc' = "done"
            /\ sm_result' = <<>>
            /\ UNCHANGED <<sm_urls, sub, sm_all_urls>>
       ELSE LET parsed == ParseSitemap(sitemap_content) IN
            IF parsed.raised
            THEN /\ spc' = "raised"
                 /\ UNCHANGED <<sm_urls, sub, sm_all_urls, sm_result>>
            ELSE /\ sm_urls' = parsed.urls
                 /\ IF IsIndex(parsed.urls)
                    THEN /\ spc' = "sub"
                         /\ sub' = 1
                         /\ sm_all_urls' = <<>>
                         /\ UNCHANGED sm_result
                    ELSE /\ spc' = "done"
                         /\ sm_result' = parsed.urls
                         /\ UNCHANGED <<sub, sm_all_urls>>
    /\ UNCHANGED <<base_url, cand, sitemap_content, fetches>>
    /\ UNCHANGED <<cvars, fvars, pvars, lvars, rvars, dvars, xvars>>

\* The loop with detection repeated on what a sub-sitemap holds: the entries
\* of a sub-sitemap that looks like an index are queued behind the others.
FetchSubExpanding(bodies) ==
    /\ spc = "sub"
    /\ sub <= Len(sm_urls)
    /\ \E out \in Outcomes(bodies) :
          LET parsed == ParseSitemap(out.body)
              nested == FetchOk(out) /\ ~parsed.raised /\ IsIndex(parsed.urls)
          IN  /\ fetches' = Append(fetches, Fetched(sm_urls[sub], out))
              /\ sm_urls' = IF nested THEN sm_urls \o parsed.urls ELSE sm_urls
              /\ sm_all_urls' =
                    IF FetchOk(out) /\ ~parsed.raised /\ ~nested
                    THEN sm_all_urls \o parsed.urls
                    ELSE sm_all_urls
    /\ sub' = sub + 1
    /\ UNCHANGED <<base_url, spc, cand, sitemap_content, sm_result>>
    /\ UNCHANGED <<cvars, fvars, pvars, lvars, rvars, dvars, xvars>>

\* The loop left at the first sub-sitemap that cannot be fetched.
FetchSubFatal(bodies) ==
    /\ spc = "sub"
    /\ sub <= Len(sm_urls)
    /\ \E out \in Outcomes(bodies) :
          LET parsed == ParseSitemap(out.body) IN
          /\ fetches' = Append(fetches, Fetched(sm_urls[sub], out))
          /\ sm_all_urls' =
                IF FetchOk(out) /\ ~parsed.raised
                THEN sm_all_urls \o parsed.urls
                ELSE sm_all_urls
          /\ sub' = IF FetchOk(out) THEN sub + 1 ELSE Len(sm_urls) + 1
    /\ UNCHANGED <<base_url, spc, cand, sitemap_content, sm_urls, sm_result>>
    /\ UNCHANGED <<cvars, fvars, pvars, lvars, rvars, dvars, xvars>>

\* One iteration of the loop over the index: the entry is requested; a 200
\* is parsed and its URLs appended; every exception inside is caught.
FetchSub(bodies) ==
    /\ spc = "sub"
    /\ sub <= Len(sm_urls)
    /\ \E out \in Outcomes(bodies) :
          LET parsed == ParseSitemap(out.body) IN
          /\ fetches' = Append(fetches, Fetched(sm_urls[sub], out))
          /\ sm_all_urls' =
                IF FetchOk(out) /\ ~parsed.raised
                THEN sm_all_urls \o parsed.urls
                ELSE sm_all_urls
    /\ sub' = sub + 1
    /\ UNCHANGED <<base_url, spc, cand, sitemap_content, sm_urls, sm_result>>
    /\ UNCHANGED <<cvars, fvars, pvars, lvars, rvars, dvars, xvars>>

\* return all_urls
ReturnAll ==
    /\ spc = "sub"
    /\ sub > Len(sm_urls)
    /\ spc' = "done"
    /\ sm_result' = sm_all_urls
    /\ UNCHANGED <<base_url, cand, sitemap_content, sm_urls, sub, sm_all_urls, fetches>>
    /\ UNCHANGED <<cvars, fvars, pvars, lvars, rvars, dvars, xvars>>

----------------------------------------------------------------------------
(* URLFilter: the links of the homepage.                                   *)

StartsWith(s, prefix) ==
    Len(s) >= Len(prefix) /\ SubSeq(s, 1, Len(prefix)) = prefix

Slash == <<"/">>
Http == <<"h", "t", "t", "p">>
HttpScheme == <<"h", "t", "t", "p", ":", "/", "/">>
HttpsScheme == <<"h", "t", "t", "p", "s", ":", "/", "/">>

\* The loop body of _extract_links_from_html up to the scheme test: a
\* reference starting with '/' gets base_url.rstrip('/') in front.
Resolved(href, base) ==
    IF StartsWith(href, Slash) THEN RStripSlash(base) \o href ELSE href

\* The reference is appended to links.
LinkKept(href, base) ==
    /\ StartsWith(href, Slash) \/ StartsWith(href, Http)
    /\ \/ StartsWith(Resolved(href, base), HttpScheme)
       \/ StartsWith(Resolved(href, base), HttpsScheme)

\* The links returned as collected.
UniqueKeepsAll(list) == list

\* Remove duplicates while preserving order.
Unique(list) ==
    LET firsts == SelectSeq([k \in 1..Len(list) |-> k],
                      LAMBDA k : \A j \in 1..(k - 1) : list[j] # list[k])
    IN  [n \in 1..Len(firsts) |-> list[firsts[n]]]

\* _extract_links_from_html(html, base): html is given by the href values
\* of its anchors, in document order.
ExtractLinks(html, base) ==
    LET kept == SelectSeq(html, LAMBDA h : LinkKept(h, base))
    IN  Unique([k \in 1..Len(kept) |-> Resolved(kept[k], base)])

\* What the page fetcher reports for the homepage.
Page(success, html) == [success |-> success, html |-> html]

\* get_homepage_links(url): [] when the fetch failed, else the links.
HomepageLinksOf(page, site) ==
    IF ~page.success THEN <<>> ELSE ExtractLinks(page.html, site)

HrefPrivacy == <<"/", "P", "r", "i", "v", "a", "c", "y">>
HrefMail == <<"m", "a", "i", "l", "t", "o", ":", "m">>

HrefUniverse == {HrefPrivacy, UrlShop, HrefMail}

Pages ==
    {Page(FALSE, <<>>)} \cup
    {Page(TRUE, h) : h \in UNION {[1..n -> HrefUniverse] : n \in 0..MaxAnchors}}

----------------------------------------------------------------------------
(* PolicyScraper.scrape: URL discovery and filtering.                      *)

\* The test with >= in place of >.
FallsBackAtCap(list, max_sitemap) == list = <<>> \/ Len(list) >= max_sitemap

\* if not all_urls or len(all_urls) > self.args.max_sitemap
FallsBack(list, max_sitemap) == list = <<>> \/ Len(list) > max_sitemap

\* The filter's variables as filter_urls(list) is called.
FilterCalled(list) ==
    /\ urls' = list
    /\ i' = 0
    /\ all_relevant_urls' = <<>>
    /\ fpc' = "call"
    /\ result' = <<>>
    /\ calls' = <<>>
    /\ contrib' = <<>>

\* scrape(url) up to the call of get_all_urls on a new SitemapParser.
ScrapeStart ==
    /\ pc = "start"
    /\ pc' = "sitemap"
    /\ base_url' = RStripSlash(url)
    /\ spc' = "fetch"
    /\ cand' = 1
    /\ sub' = 1
    /\ sm_urls' = <<>>
    /\ sm_all_urls' = <<>>
    /\ sm_result' = <<>>
    /\ fetches' = <<>>
    /\ UNCHANGED sitemap_content
    /\ UNCHANGED <<url, all_urls, source_name, relevant_urls, homepage_log>>
    /\ UNCHANGED <<cvars, fvars, lvars, rvars, dvars, xvars>>

\* get_all_urls has returned: the sitemap's URLs go to the filter, or the
\* run falls back to the homepage. An exception leaves scrape.
ScrapeDiscover ==
    /\ pc = "sitemap"
    /\ spc \in {"done", "raised"}
    /\ IF spc = "raised"
       THEN /\ pc' = "raised"
            /\ UNCHANGED <<all_urls, source_name, fvars>>
       ELSE /\ all_urls' = sm_result
            /\ source_name' = "Sitemap"
            /\ IF FallsBack(sm_result, args.max_sitemap)
               THEN pc' = "homepage" /\ UNCHANGED fvars
               ELSE pc' = "filter" /\ FilterCalled(sm_result)
    /\ UNCHANGED <<url, relevant_urls, homepage_log>>
    /\ UNCHANGED <<cvars, svars, lvars, rvars, dvars, xvars>>

\* all_urls = await self.url_filter.get_homepage_links(url), and the call
\* of filter_urls on them.
HomepageLinks(pages) ==
    /\ pc = "homepage"
    /\ \E page \in pages :
          /\ homepage_log' = Append(homepage_log, page)
          /\ all_urls' = HomepageLinksOf(page, url)
          /\ FilterCalled(HomepageLinksOf(page, url))
    /\ source_name' = "Homepage"
    /\ pc' = "filter"
    /\ UNCHANGED <<url, relevant_urls>>
    /\ UNCHANGED <<cvars, svars, lvars, rvars, dvars, xvars>>

\* filter_urls has returned (or raised).
ScrapeFiltered ==
    /\ pc = "filter"
    /\ fpc \in {"done", "raised"}
    /\ IF fpc = "raised"
       THEN pc' = "raised" /\ UNCHANGED relevant_urls
       ELSE pc' = "extract" /\ relevant_urls' = result
    /\ UNCHANGED <<url, all_urls, source_name, homepage_log>>
    /\ UNCHANGED <<cvars, svars, fvars, lvars, rvars, dvars, xvars>>

----------------------------------------------------------------------------
(* URLFilter.filter_from_homepage: the extraction of the homepage's links. *)

\* all_links = self._extract_links_from_html(html, start_url)
ExtractCall ==
    /\ lpc = "call"
    /\ all_links' = ExtractLinks(html_content, start_url)
    /\ lpc' = "done"
    /\ UNCHANGED <<html_content, start_url>>
    /\ UNCHANGED <<cvars, fvars, svars, pvars, rvars, dvars, xvars>>

\* The extraction before it is called (pos = "idle") or as it is called.
LinkInit(html, base, pos) ==
    /\ html_content = html
    /\ start_url = base
    /\ all_links = <<>>
    /\ lpc = pos

----------------------------------------------------------------------------
(* rag_query.ask_question. Similarity scores are numbers of equal steps    *)
(* between 0 and 1; only their order matters to the code.                  *)

Scores == 0..MaxScore

\* A retrieved document: the row it came from and its similarity.
Document(id, similarity) == [id |-> id, similarity |-> similarity]

\* The rows a lookup with match_count k can return, by similarity.
Rows(k) == UNION {[1..n -> Scores] : n \in 0..Min(k, MaxLimit)}

\* search_similar_content(embedding, match_threshold, match_count): at most
\* match_count rows, each of a similarity that reaches match_threshold.
Matches(floor, k) ==
    {rows \in Rows(k) : \A n \in 1..Len(rows) : rows[n] >= floor}

\* PgVectorRetriever._get_relevant_documents: one Document per row.
Documents(rows) == [k \in 1..Len(rows) |-> Document(k, rows[k])]

\* What can go wrong inside search_similar: the embedding model was not
\* loaded, connect() fails, no embedding comes back, the query raises.
SearchFailures == {"none", "model", "connect", "embedding", "query"}

\* DatabaseHandler.search_similar, by what it returns: the rows of the
\* store, or the empty list of each of its failure paths.
SearchResults(failure, rows) == IF failure = "none" THEN rows ELSE <<>>

\* A lookup as the log keeps it: the floor and the count asked for, what
\* went wrong inside search_similar, whether the retriever around it
\* raised, and the rows returned.
Lookup(floor, k, failure, raised, rows) ==
    [floor |-> floor, k |-> k, failure |-> failure, raised |-> raised,
     rows |-> rows]

\* max(doc.metadata['similarity'] for doc in all_docs)
Highest(list) == SetMax({list[k].similarity : k \in 1..Len(list)})

\* The test with <= in place of <.
RoutesToSearchInclusive(highest, routing) == highest <= routing

\* if highest_similarity < routing_threshold
RoutesToSearch(highest, routing) == highest < routing

\* The list taken over as it is.
DocsUnfiltered(list, floor) == list

\* The floor lowered to the highest similarity when it lies above it.
DocsClamped(list, floor) ==
    SelectSeq(list, LAMBDA d : d.similarity >= Min(floor, Highest(list)))

\* The filter with > in place of >=.
DocsStrict(list, floor) == SelectSeq(list, LAMBDA d : d.similarity > floor)

\* [doc for doc in all_docs if doc.metadata['similarity'] >= threshold]
Docs(list, floor) == SelectSeq(list, LAMBDA d : d.similarity >= floor)

\* Step 1: the lookup with threshold 0.0 and k = limit. An exception of
\* the retriever is caught by the except clause of ask_question.
Retrieve ==
    /\ rpc = "start"
    /\ \/ /\ \E failure \in SearchFailures, rows \in Matches(0, limit) :
                LET results == SearchResults(failure, rows)
                IN  /\ all_docs' = Documents(results)
                    /\ lookups' = Append(lookups,
                                    Lookup(0, limit, failure, FALSE, results))
          /\ rpc' = "route"
          /\ UNCHANGED outcome
       \/ /\ lookups' = Append(lookups, Lookup(0, limit, "none", TRUE, <<>>))
          /\ rpc' = "done"
          /\ outcome' = "error"
          /\ UNCHANGED all_docs
    /\ UNCHANGED <<threshold, limit, verbose, routing_threshold, docs, generations>>
    /\ UNCHANGED <<cvars, fvars, svars, pvars, lvars, dvars, xvars>>

\* From "if not all_docs" to the announcement of the RAG path: the empty
\* knowledge base, the routing decision, and the retrieval threshold.
Route ==
    /\ rpc = "route"
    /\ IF all_docs = <<>>
       THEN /\ outcome' = "corpus_empty"
            /\ rpc' = "done"
            /\ UNCHANGED docs
       ELSE IF RoutesToSearch(Highest(all_docs), routing_threshold)
       THEN /\ outcome' = "search"
            /\ rpc' = "done"
            /\ UNCHANGED docs
       ELSE /\ docs' = Docs(all_docs, threshold)
            /\ IF Docs(all_docs, threshold) = <<>>
               THEN outcome' = "warning" /\ rpc' = "done"
               ELSE rpc' = "generate" /\ UNCHANGED outcome
    /\ UNCHANGED <<threshold, limit, verbose, routing_threshold, all_docs,
                   lookups, generations>>
    /\ UNCHANGED <<cvars, fvars, svars, pvars, lvars, dvars, xvars>>

\* create_rag_chain(threshold, limit) and rag_chain.invoke(question): the
\* chain's own retriever looks the question up, the rows are the context
\* of the call of the language model; the answer is printed with the
\* sources. An exception of the lookup or of the model is caught.
Generate ==
    /\ rpc = "generate"
    /\ \/ \E failure \in SearchFailures, rows \in Matches(threshold, limit) :
             LET results == SearchResults(failure, rows)
             IN  /\ lookups' = Append(lookups,
                             Lookup(threshold, limit, failure, FALSE, results))
                 /\ generations' = Append(generations, Documents(results))
                 /\ outcome' \in {"answer", "error"}
       \/ /\ lookups' = Append(lookups,
                              Lookup(threshold, limit, "none", TRUE, <<>>))
          /\ outcome' = "error"
          /\ UNCHANGED generations
    /\ rpc' = "done"
    /\ UNCHANGED <<threshold, limit, verbose, routing_threshold, all_docs, docs>>
    /\ UNCHANGED <<cvars, fvars, svars, pvars, lvars, dvars, xvars>>

\* ask_question before it is called (pos = "idle") or as it is called.
RouterInit(t, k, v, r, pos) ==
    /\ threshold = t
    /\ limit = k
    /\ verbose = v
    /\ routing_threshold = r
    /\ all_docs = <<>>
    /\ docs = <<>>
    /\ rpc = pos
    /\ outcome = "none"
    /\ lookups = <<>>
    /\ generations = <<>>

----------------------------------------------------------------------------
(* DatabaseHandler: the connection, and the rows its operations commit.    *)

\* An extracted page, as extract returns it and as save_all takes it.
Content(u) == [url |-> u]

\* disconnect() that leaves self.conn as it is.
DisconnectKeeps(c) == c

\* disconnect(): an open connection is closed; self.conn is None after it.
Disconnect(c) == "None"

\* The row that save_scrape_session inserts; the store numbers the rows.
SessionRow(id, website_url, data) ==
    [id |-> id, website_url |-> website_url, pages_scraped |-> Len(data)]

\* _generate_embedding: None without a model (an error of encode, which
\* gives None as well, is not told apart).
GenerateEmbedding(model) == IF model THEN "vector" ELSE "None"

\* The rows that save_scraped_pages inserts, one per page, in one statement.
PageRows(id, data, model) ==
    [k \in 1..Len(data) |->
        [session_id |-> id, url |-> data[k].url,
         content_embedding |-> GenerateEmbedding(model)]]

\* The variables of the handler as one of its operations is called.
Called(operation) ==
    /\ op' = operation
    /\ dpc' = operation.name
    /\ opened' = 0
    /\ returned' = "none"
    /\ db_results' = <<>>
    /\ session_id' = 0
    /\ before' = [sessions |-> scrape_sessions, pages |-> scraped_pages]
    /\ ops' = ops + 1
    /\ UNCHANGED <<conn, embedding_model, scrape_sessions, scraped_pages>>

\* save_all up to the call of save_scrape_session: connect() opens the
\* connection, or fails and save_all returns False.
SaveAll ==
    /\ dpc = "save_all"
    /\ \E connected \in BOOLEAN :
          IF connected
          THEN /\ conn' = "open"
               /\ opened' = opened + 1
               /\ dpc' = "session"
               /\ UNCHANGED returned
          ELSE /\ returned' = "False"
               /\ dpc' = "returned"
               /\ UNCHANGED <<conn, opened>>
    /\ UNCHANGED <<embedding_model, op, db_results, session_id, scrape_sessions,
                   scraped_pages, before, ops>>
    /\ UNCHANGED <<cvars, fvars, svars, pvars, lvars, rvars, xvars>>

\* save_scrape_session and the test of its result: the row is inserted and
\* committed, or the insertion raises and is rolled back, and save_all
\* returns False through its finally clause.
SaveScrapeSession ==
    /\ dpc = "session"
    /\ \E inserted \in BOOLEAN :
          IF conn # "None" /\ inserted
          THEN /\ session_id' = Len(scrape_sessions) + 1
               /\ scrape_sessions' =
                     Append(scrape_sessions,
                            SessionRow(Len(scrape_sessions) + 1,
                                       op.website_url, op.data))
               /\ dpc' = "pages"
               /\ UNCHANGED <<conn, returned>>
          ELSE /\ returned' = "False"
               /\ conn' = Disconnect(conn)
               /\ dpc' = "returned"
               /\ UNCHANGED <<session_id, scrape_sessions>>
    /\ UNCHANGED <<embedding_model, op, opened, db_results, scraped_pages, before, ops>>
    /\ UNCHANGED <<cvars, fvars, svars, pvars, lvars, rvars, xvars>>

\* save_scraped_pages and the end of save_all: the rows of all pages are
\* inserted and committed together, or the insertion raises and is rolled
\* back; the finally clause disconnects.
SaveScrapedPages ==
    /\ dpc = "pages"
    /\ \E inserted \in BOOLEAN :
          IF conn # "None" /\ inserted
          THEN /\ scraped_pages' =
                     scraped_pages \o PageRows(session_id, op.data, embedding_model)
               /\ returned' = "True"
          ELSE /\ returned' = "False"
               /\ UNCHANGED scraped_pages
    /\ conn' = Disconnect(conn)
    /\ dpc' = "returned"
    /\ UNCHANGED <<embedding_model, op, opened, db_results, session_id,
                   scrape_sessions, before, ops>>
    /\ UNCHANGED <<cvars, fvars, svars, pvars, lvars, rvars, xvars>>

\* search_similar up to its try statement: without a model it returns []
\* at once; connect() opens the connection, or fails and [] is returned.
SearchSimilar ==
    /\ dpc = "search_similar"
    /\ IF ~embedding_model
       THEN /\ db_results' = SearchResults("model", <<>>)
            /\ dpc' = "returned"
            /\ UNCHANGED <<conn, opened>>
       ELSE \E connected \in BOOLEAN :
              IF connected
              THEN /\ conn' = "open"
                   /\ opened' = opened + 1
                   /\ dpc' = "query"
                   /\ UNCHANGED db_results
              ELSE /\ db_results' = SearchResults("connect", <<>>)
                   /\ dpc' = "returned"
                   /\ UNCHANGED <<conn, opened>>
    /\ UNCHANGED <<embedding_model, op, returned, session_id, scrape_sessions,
                   scraped_pages, before, ops>>
    /\ UNCHANGED <<cvars, fvars, svars, pvars, lvars, rvars, xvars>>

\* The try statement of search_similar: the embedding of the query and the
\* query; every way out passes the finally clause.
SearchQuery ==
    /\ dpc = "query"
    /\ \E failure \in {"none", "embedding", "query"},
          rows \in Matches(op.match_threshold, op.match_count) :
          /\ Len(rows) <= Len(scraped_pages)
          /\ db_results' = SearchResults(failure, rows)
    /\ conn' = Disconnect(conn)
    /\ dpc' = "returned"
    /\ UNCHANGED <<embedding_model, op, opened, returned, session_id,
                   scrape_sessions, scraped_pages, before, ops>>
    /\ UNCHANGED <<cvars, fvars, svars, pvars, lvars, rvars, xvars>>

\* get_session_stats up to its try statement.
GetSessionStats ==
    /\ dpc = "get_session_stats"
    /\ \E connected \in BOOLEAN :
          IF connected
          THEN /\ conn' = "open"
               /\ opened' = opened + 1
               /\ dpc' = "stats"
               /\ UNCHANGED db_results
          ELSE /\ db_results' = <<>>
               /\ dpc' = "returned"
               /\ UNCHANGED <<conn, opened>>
    /\ UNCHANGED <<embedding_model, op, returned, session_id, scrape_sessions,
                   scraped_pages, before, ops>>
    /\ UNCHANGED <<cvars, fvars, svars, pvars, lvars, rvars, xvars>>

\* The try statement of get_session_stats: the rows of one session or of
\* all, or [] when the query raises; the finally clause disconnects.
StatsQuery ==
    /\ dpc = "stats"
    /\ \E raised \in BOOLEAN :
          db_results' =
              IF raised THEN <<>>
              ELSE IF op.session_id # 0
                   THEN SelectSeq(scrape_sessions, LAMBDA r : r.id = op.session_id)
                   ELSE scrape_sessions
    /\ conn' = Disconnect(conn)
    /\ dpc' = "returned"
    /\ UNCHANGED <<embedding_model, op, opened, returned, session_id,
                   scrape_sessions, scraped_pages, before, ops>>
    /\ UNCHANGED <<cvars, fvars, svars, pvars, lvars, rvars, xvars>>

\* The handler before any operation (pos = "idle").
DbInit(model, pos) ==
    /\ conn = "None"
    /\ embedding_model = model
    /\ dpc = pos
    /\ op = [name |-> "none"]
    /\ opened = 0
    /\ returned = "none"
    /\ db_results = <<>>
    /\ session_id = 0
    /\ scrape_sessions = <<>>
    /\ scraped_pages = <<>>
    /\ before = [sessions |-> <<>>, pages |-> <<>>]
    /\ ops = 0

----------------------------------------------------------------------------
(* main, and scrape from the extraction loop on.                           *)

\* What extract can come to: the fetch failed, the content is empty or
\* shorter than 50 characters, the parsing raised, or the page was read.
ExtractOutcomes == {"failed", "short", "error", "ok"}

\* ContentExtractor.extract: the page, or None (the empty sequence).
Extract(u, out) == IF out = "ok" THEN <<Content(u)>> ELSE <<>>

\* The page put in front of those extracted before it.
PrependContent(data, content) == content \o data

\* if content: scraped_data.append(content)
AppendContent(data, content) == data \o content

\* The test that never ends the run.
NoContentNever(data) == FALSE

\* if not scraped_data
NoContent(data) == data = <<>>

\* self.db_handler = DatabaseHandler() if args.use_database else None
DbHandler(use) == IF use THEN "DatabaseHandler" ELSE "None"

\* The save made whatever the command line says.
SavesToDatabaseAlways(use) == TRUE

\* if self.args.use_database and self.db_handler
SavesToDatabase(use) == use /\ DbHandler(use) # "None"

\* --format
Formats == {"all", "json", "text", "markdown"}

\* The files each format writes into the folder of the site.
FilesOf(fmt) ==
    IF fmt = "all" THEN {"json", "text", "markdown", "summary"}
    ELSE {fmt, "summary"}

\* The variables of scrape as main calls it for the next site; the filter
\* and the sitemap document are those of no earlier site.
ScrapeCalled(site) ==
    /\ url' = site
    /\ pc' = "start"
    /\ all_urls' = <<>>
    /\ source_name' = "Sitemap"
    /\ relevant_urls' = <<>>
    /\ homepage_log' = <<>>
    /\ idx' = 0
    /\ scraped_data' = <<>>
    /\ visits' = <<>>
    /\ urls' = <<>>
    /\ i' = 0
    /\ all_relevant_urls' = <<>>
    /\ fpc' = "idle"
    /\ result' = <<>>
    /\ calls' = <<>>
    /\ contrib' = <<>>

\* main: for url in urls: await scraper.scrape(url). The next site is taken
\* when the scrape of the one before has returned.
MainScrape ==
    /\ mpc = "loop"
    /\ pc \in {"idle", "done"}
    /\ Len(started) < Len(targets)
    /\ started' = Append(started, targets[Len(started) + 1])
    /\ ScrapeCalled(targets[Len(started) + 1])
    /\ UNCHANGED <<targets, mpc, use_database, format, db_saves, files, outcomes>>
    /\ UNCHANGED <<cvars, svars, lvars, rvars, dvars>>

\* main returns after the last site, or is left by the exception that left
\* scrape: the loop has no try statement.
MainEnd ==
    /\ mpc = "loop"
    /\ IF pc = "raised"
       THEN mpc' = "raised"
       ELSE /\ pc \in {"idle", "done"}
            /\ Len(started) = Len(targets)
            /\ mpc' = "done"
    /\ UNCHANGED <<targets, started, use_database, format, idx, scraped_data,
                   visits, db_saves, files, outcomes>>
    /\ UNCHANGED <<cvars, fvars, svars, pvars, lvars, rvars, dvars>>

\* One iteration of the extraction loop: the next relevant URL is
\* extracted, and what extract returned is appended unless it is None.
ScrapeExtract ==
    /\ pc = "extract"
    /\ idx < Len(relevant_urls)
    /\ \E out \in ExtractOutcomes :
          LET target_url == relevant_urls[idx + 1]
              content == Extract(target_url, out)
          IN  /\ visits' = Append(visits,
                                [url |-> target_url, got |-> content # <<>>])
              /\ scraped_data' = AppendContent(scraped_data, content)
    /\ idx' = idx + 1
    /\ UNCHANGED <<targets, started, mpc, use_database, format, db_saves,
                   files, outcomes>>
    /\ UNCHANGED <<cvars, fvars, svars, pvars, lvars, rvars, dvars>>

\* After the loop: without a page the run ends with "No content extracted";
\* with pages and the database in use save_all is called; otherwise the
\* files are next.
ScrapeSave ==
    /\ pc = "extract"
    /\ idx = Len(relevant_urls)
    /\ IF NoContent(scraped_data)
       THEN /\ outcomes' = Append(outcomes,
                 [run |-> Len(started), pages |-> scraped_data, ended |-> "no_content"])
            /\ pc' = "done"
            /\ UNCHANGED <<db_saves, dvars>>
       ELSE IF SavesToDatabase(use_database)
       THEN /\ db_saves' = Append(db_saves,
                 [run |-> Len(started), pages |-> scraped_data])
            /\ Called([name |-> "save_all", data |-> scraped_data, website_url |-> url])
            /\ pc' = "save_db"
            /\ UNCHANGED outcomes
       ELSE /\ pc' = "save_files"
            /\ UNCHANGED <<db_saves, outcomes, dvars>>
    /\ UNCHANGED <<url, all_urls, source_name, relevant_urls, homepage_log>>
    /\ UNCHANGED <<targets, started, mpc, use_database, format, idx,
                   scraped_data, visits, files>>
    /\ UNCHANGED <<cvars, fvars, svars, lvars, rvars>>

\* "Saving to files": the files of the format are written, after save_all
\* has returned True or False or without a call of it, and scrape returns.
ScrapeSaveFiles ==
    /\ \/ pc = "save_db" /\ dpc = "returned"
       \/ pc = "save_files"
    /\ files' = Append(files,
          [run |-> Len(started), kinds |-> FilesOf(format), pages |-> scraped_data,
           db_success |-> IF pc = "save_db" THEN returned ELSE "none"])
    /\ outcomes' = Append(outcomes,
          [run |-> Len(started), pages |-> scraped_data, ended |-> "saved"])
    /\ pc' = "done"
    /\ UNCHANGED <<url, all_urls, source_name, relevant_urls, homepage_log>>
    /\ UNCHANGED <<targets, started, mpc, use_database, format, idx,
                   scraped_data, visits, db_saves>>
    /\ UNCHANGED <<cvars, fvars, svars, lvars, rvars, dvars>>

\* main before it is called (pos = "idle") or as its loop begins.
RunInit(list, use, fmt, pos) ==
    /\ targets = list
    /\ started = <<>>
    /\ mpc = pos
    /\ use_database = use
    /\ format = fmt
    /\ idx = 0
    /\ scraped_data = <<>>
    /\ visits = <<>>
    /\ db_saves = <<>>
    /\ files = <<>>
    /\ outcomes = <<>>

----------------------------------------------------------------------------
(* The states before the operations are called.                            *)

\* The resolver before get_all_urls is called (pos = "idle") or as it is
\* called (pos = "fetch").
SitemapInit(site, pos) ==
    /\ base_url = RStripSlash(site)
    /\ spc = pos
    /\ cand = 1
    /\ sitemap_content = Body("empty", <<>>)
    /\ sm_urls = <<>>
    /\ sub = 1
    /\ sm_all_urls = <<>>
    /\ sm_result = <<>>
    /\ fetches = <<>>

\* The filter before it is called (pos = "idle") or as it is called.
FilterInit(list, pos) ==
    /\ urls = list
    /\ i = 0
    /\ all_relevant_urls = <<>>
    /\ fpc = pos
    /\ result = <<>>
    /\ calls = <<>>
    /\ contrib = <<>>

ConfigInit(a) ==
    /\ args = a
    /\ mode = InitMode(a)
    /\ manual_keywords = InitManualKeywords(a)

\* scrape before it is called (pos = "idle") or as it is called.
ScrapeInit(site, pos) ==
    /\ url = site
    /\ pc = pos
    /\ all_urls = <<>>
    /\ source_name = "Sitemap"
    /\ relevant_urls = <<>>
    /\ homepage_log = <<>>

\* --max-sitemap: the default.
DefaultMaxSitemap == 500

\* args.filter_manual: None, [] or a list of keywords.
FilterManualArgs ==
    { [given |-> FALSE, kws |-> <<>>], [given |-> TRUE, kws |-> <<>>],
      [given |-> TRUE, kws |-> CustomKeywords] }

NoFilterManual == [given |-> FALSE, kws |-> <<>>]

----------------------------------------------------------------------------
(* The filter on its own: every input list and configuration.              *)

Universe == {UrlPrivacy, UrlShop}

Patterns == {<<UrlPrivacy, UrlShop>>, <<UrlShop, UrlPrivacy, UrlShop>>}

\* The list of length n that repeats pattern p.
Cycle(p, n) == [k \in 1..n |-> p[((k - 1) % Len(p)) + 1]]

LongLengths ==
    {batch_size - 1, batch_size, batch_size + 1}
        \cup (2 * batch_size .. 2 * batch_size + MaxTail)

ShortLists == UNION {[1..n -> Universe] : n \in 0..MaxShort}

InputLists == ShortLists \cup {Cycle(p, n) : p \in Patterns, n \in LongLengths}

InitFilter ==
    /\ \E a \in [filter_manual : FilterManualArgs, max_sitemap : {DefaultMaxSitemap}] :
          ConfigInit(a)
    /\ \E list \in InputLists : FilterInit(list, "call")
    /\ SitemapInit(SiteUrl, "idle")
    /\ ScrapeInit(SiteUrl, "idle")
    /\ LinkInit(<<>>, SiteUrl, "idle")
    /\ RouterInit(0, 1, FALSE, 0, "idle")
    /\ DbInit(TRUE, "idle")
    /\ RunInit(<<>>, FALSE, "all", "idle")

NextFilter == FilterUrls \/ FilterStart \/ FilterBatch("any") \/ FilterReturn

SpecFilter == InitFilter /\ [][NextFilter]_vars

----------------------------------------------------------------------------
(* The sitemap resolver on its own: every site behaviour.                  *)

SiteUrls == {SiteUrl, SiteUrlSlash}

InitSitemap ==
    /\ ConfigInit([filter_manual |-> NoFilterManual, max_sitemap |-> DefaultMaxSitemap])
    /\ FilterInit(<<>>, "idle")
    /\ \E site \in SiteUrls : SitemapInit(site, "fetch") /\ ScrapeInit(site, "idle")
    /\ LinkInit(<<>>, SiteUrl, "idle")
    /\ RouterInit(0, 1, FALSE, 0, "idle")
    /\ DbInit(TRUE, "idle")
    /\ RunInit(<<>>, FALSE, "all", "idle")

NextSitemap ==
    FetchCandidate(TopBodies) \/ ParseTop \/ FetchSub(SubBodies) \/ ReturnAll

SpecSitemap == InitSitemap /\ [][NextSitemap]_vars

\* Documents that nest: an index of a sub-sitemap and of itself, an index
\* of one sub-sitemap, a leaf, and a text that is no XML. With SubBodies a
\* sub-sitemap can again be an index, also of itself.
NestedBodies ==
    { Body("malformed", <<>>),
      Body("xml", <<Loc("sm", TRUE, TextPrivacy)>>),
      Body("xml", <<Loc("sm", TRUE, TextSub)>>),
      Body("xml", <<Loc("sm", TRUE, TextSub), Loc("sm", TRUE, TextSelf)>>) }

NextNested ==
    FetchCandidate(NestedBodies) \/ ParseTop \/ FetchSub(SubBodies) \/ ReturnAll

\* get_all_urls is one coroutine that is awaited to its end, and every
\* request is bounded by its timeout: a step that can be taken is taken.
FairSitemap == InitSitemap /\ [][NextNested]_vars /\ WF_vars(NextNested)

----------------------------------------------------------------------------
(* A scrape run: discovery and filtering of one site.                      *)

\* The sitemap documents of the sites of a scrape run.
ScrapeBodies ==
    { Body("malformed", <<>>),
      Body("xml", <<Loc("sm", TRUE, TextPrivacy)>>),
      Body("xml", <<Loc("sm", TRUE, TextPrivacy), Loc("sm", TRUE, UrlShop)>>),
      Body("xml", <<Loc("sm", TRUE, TextSub), Loc("sm", TRUE, TextSub)>>),
      Body("xml", <<Loc("sm", TRUE, HrefPrivacy)>>) }

\* The documents of the sub-sitemaps of a scrape run.
ScrapeSubBodies ==
    { Body("xml", <<Loc("sm", TRUE, TextPrivacy)>>),
      Body("xml", <<Loc("none", TRUE, UrlShop)>>) }

InitScrape ==
    /\ \E a \in [filter_manual : {NoFilterManual, [given |-> TRUE, kws |-> <<>>]},
                max_sitemap : 1..MaxCap] : ConfigInit(a)
    /\ FilterInit(<<>>, "idle")
    /\ \E site \in SiteUrls : SitemapInit(site, "idle") /\ ScrapeInit(site, "start")
    /\ LinkInit(<<>>, SiteUrl, "idle")
    /\ RouterInit(0, 1, FALSE, 0, "idle")
    /\ DbInit(TRUE, "idle")
    /\ RunInit(<<>>, FALSE, "all", "idle")

NextScrape ==
    \/ ScrapeStart
    \/ FetchCandidate(ScrapeBodies) \/ ParseTop \/ FetchSub(ScrapeSubBodies) \/ ReturnAll
    \/ ScrapeDiscover
    \/ HomepageLinks(Pages)
    \/ FilterUrls \/ FilterStart \/ FilterBatch("scrape") \/ FilterReturn
    \/ ScrapeFiltered

SpecScrape == InitScrape /\ [][NextScrape]_vars

----------------------------------------------------------------------------
(* The link extraction on its own: every document and base.                *)

SiteUrlPath == <<"h", "t", "t", "p", "s", ":", "/", "/", "x", "/", "h">>

\* The base URLs: a bare origin, one with a trailing slash, one with a path.
BaseUrls == {SiteUrl, SiteUrlSlash, SiteUrlPath}

HrefHttpBare == <<"h", "t", "t", "p", ":", "m">>
HrefSecure == <<"h", "t", "t", "p", "s", ":", "/", "/", "x", "/", "s">>

\* References of every kind the loop distinguishes: path-absolute, http
\* and https URLs, another scheme, and "http" without "://".
ExtractHrefs ==
    {HrefPrivacy, UrlPrivacy, UrlShop, HrefSecure, HrefMail, HrefHttpBare}

HtmlDocuments == UNION {[1..n -> ExtractHrefs] : n \in 0..MaxHrefs}

InitExtract ==
    /\ ConfigInit([filter_manual |-> NoFilterManual, max_sitemap |-> DefaultMaxSitemap])
    /\ FilterInit(<<>>, "idle")
    /\ SitemapInit(SiteUrl, "idle")
    /\ ScrapeInit(SiteUrl, "idle")
    /\ \E html \in HtmlDocuments, base \in BaseUrls : LinkInit(html, base, "call")
    /\ RouterInit(0, 1, FALSE, 0, "idle")
    /\ DbInit(TRUE, "idle")
    /\ RunInit(<<>>, FALSE, "all", "idle")

NextExtract == ExtractCall

SpecExtract == InitExtract /\ [][NextExtract]_vars

----------------------------------------------------------------------------
(* The query router on its own: every threshold, limit and lookup result.  *)

InitRouter ==
    /\ ConfigInit([filter_manual |-> NoFilterManual, max_sitemap |-> DefaultMaxSitemap])
    /\ FilterInit(<<>>, "idle")
    /\ SitemapInit(SiteUrl, "idle")
    /\ ScrapeInit(SiteUrl, "idle")
    /\ LinkInit(<<>>, SiteUrl, "idle")
    /\ \E t \in Scores, k \in 1..MaxLimit, v \in BOOLEAN, r \in Scores :
          RouterInit(t, k, v, r, "start")
    /\ DbInit(TRUE, "idle")
    /\ RunInit(<<>>, FALSE, "all", "idle")

NextRouter == Retrieve \/ Route \/ Generate

SpecRouter == InitRouter /\ [][NextRouter]_vars

----------------------------------------------------------------------------
(* The DatabaseHandler on its own: its operations in any order.            *)

\* The pages handed to save_all.
DataSets == {<<Content(UrlPrivacy)>>, <<Content(UrlPrivacy), Content(UrlShop)>>}

\* The calls: save_all, search_similar, get_session_stats (0 is no id).
Operations ==
    {[name |-> "save_all", data |-> d, website_url |-> SiteUrl] : d \in DataSets}
    \cup {[name |-> "search_similar", match_threshold |-> t, match_count |-> 1] :
             t \in {0, 1}}
    \cup {[name |-> "get_session_stats", session_id |-> n] : n \in {0, 1}}

\* An operation is called once the one before it has returned.
DbCall ==
    /\ dpc \in {"idle", "returned"}
    /\ ops < MaxOps
    /\ \E operation \in Operations : Called(operation)
    /\ UNCHANGED <<cvars, fvars, svars, pvars, lvars, rvars, xvars>>

InitDb ==
    /\ ConfigInit([filter_manual |-> NoFilterManual, max_sitemap |-> DefaultMaxSitemap])
    /\ FilterInit(<<>>, "idle")
    /\ SitemapInit(SiteUrl, "idle")
    /\ ScrapeInit(SiteUrl, "idle")
    /\ LinkInit(<<>>, SiteUrl, "idle")
    /\ RouterInit(0, 1, FALSE, 0, "idle")
    /\ \E model \in BOOLEAN : DbInit(model, "idle")
    /\ RunInit(<<>>, FALSE, "all", "idle")

NextDb ==
    \/ DbCall
    \/ SaveAll \/ SaveScrapeSession \/ SaveScrapedPages
    \/ SearchSimilar \/ SearchQuery
    \/ GetSessionStats \/ StatsQuery

SpecDb == InitDb /\ [][NextDb]_vars

----------------------------------------------------------------------------
(* main: the sites of a batch file, each scraped from discovery to saving, *)
(* with the classifier as the filter; the embedding model is loaded when   *)
(* the database is in use.                                                 *)

\* The sitemap documents of the sites: none that parses, a page, an index.
RunBodies ==
    { Body("malformed", <<>>),
      Body("xml", <<Loc("sm", TRUE, TextPrivacy)>>),
      Body("xml", <<Loc("sm", TRUE, TextSub)>>) }

RunSubBodies == { Body("xml", <<Loc("sm", TRUE, UrlShop)>>) }

\* The homepages: not fetched, without a usable link, with two links.
RunPages ==
    { Page(FALSE, <<>>), Page(TRUE, <<HrefMail>>),
      Page(TRUE, <<HrefPrivacy, UrlForeign>>) }

\* The lines of the batch file, or the one site of the command line.
RunTargets == {<<SiteUrl>>, <<SiteUrl, SiteUrlSlash>>}

\* The formats of the runs: every file, and one.
RunFormats == {"all", "markdown"}

InitRun ==
    /\ ConfigInit([filter_manual |-> NoFilterManual, max_sitemap |-> DefaultMaxSitemap])
    /\ FilterInit(<<>>, "idle")
    /\ SitemapInit(SiteUrl, "idle")
    /\ ScrapeInit(SiteUrl, "idle")
    /\ LinkInit(<<>>, SiteUrl, "idle")
    /\ RouterInit(0, 1, FALSE, 0, "idle")
    /\ \E list \in RunTargets, use \in BOOLEAN, fmt \in RunFormats :
          /\ RunInit(list, use, fmt, "loop")
          /\ DbInit(use, "idle")

NextRun ==
    \/ MainScrape \/ MainEnd
    \/ ScrapeStart
    \/ FetchCandidate(RunBodies) \/ ParseTop \/ FetchSub(RunSubBodies) \/ ReturnAll
    \/ ScrapeDiscover
    \/ HomepageLinks(RunPages)
    \/ FilterUrls \/ FilterStart \/ FilterBatch("scrape") \/ FilterReturn
    \/ ScrapeFiltered
    \/ ScrapeExtract \/ ScrapeSave
    \/ SaveAll \/ SaveScrapeSession \/ SaveScrapedPages
    \/ ScrapeSaveFiles

SpecRun == InitRun /\ [][NextRun]_vars

----------------------------------------------------------------------------
(* Properties of discovery.                                                *)

\* C1: the sitemap's URLs are the candidate set exactly when there are N of
\* them with 0 < N <= max_sitemap; otherwise they are discarded, the
\* homepage is fetched (once) and its links are the candidate set; no run
\* that uses the sitemap fetches the homepage.
C1_SitemapIffWithinCap ==
    /\ pc \in {"start", "sitemap"} => homepage_log = <<>>
    /\ pc = "homepage" =>
          /\ homepage_log = <<>>
          /\ ~(0 < Len(sm_result) /\ Len(sm_result) <= args.max_sitemap)
    /\ pc \in {"filter", "extract", "raised"} =>
          IF 0 < Len(sm_result) /\ Len(sm_result) <= args.max_sitemap
          THEN /\ source_name = "Sitemap"
               /\ all_urls = sm_result
               /\ urls = sm_result
               /\ homepage_log = <<>>
          ELSE /\ source_name = "Homepage"
               /\ Len(homepage_log) = 1
               /\ all_urls = HomepageLinksOf(homepage_log[1], url)
               /\ urls = all_urls

C1_Witness ==
    /\ pc = "extract"
    /\ Len(sm_result) = args.max_sitemap
    /\ source_name = "Sitemap"
    /\ relevant_urls # <<>>

----------------------------------------------------------------------------
(* Properties of the Relevance Filter.                                     *)

\* The specification's keyword rule: the lower-cased URL contains one of
\* the keywords as a substring.
KeywordRelevant(u, keywords) ==
    LET lowered == Lower(u)
    IN  \E kw \in SeqToSet(keywords) : Contains(lowered, kw)

KeywordSelection(list, keywords) ==
    {u \in SeqToSet(list) : KeywordRelevant(u, keywords)}

\* The keyword set the caller configured on the command line.
CallerKeywords ==
    IF args.filter_manual.given /\ args.filter_manual.kws # <<>>
    THEN args.filter_manual.kws
    ELSE DefaultKeywords

\* The classifier call of batch k threw: no answer, an unparseable text, a
\* text that is no JSON object, or a reasoning that cannot be sliced.
CallThrew(k) ==
    \/ contrib[k].ans.kind = "error"
    \/ /\ contrib[k].ans.kind = "http"
       /\ contrib[k].ans.status = 200
       /\ \/ contrib[k].ans.shape \in {"unparseable", "array"}
          \/ contrib[k].ans.reasoning = "num"

NonSuccess(k) == contrib[k].ans.kind = "http" /\ contrib[k].ans.status # 200

Finished == fpc \in {"done", "raised"}

\* C2: a batch answered with a non-success HTTP status contributes exactly
\* the batch's keyword-matching URLs.
C2_NonSuccessUsesKeywords ==
    \A k \in 1..Len(contrib) :
        NonSuccess(k) =>
            SeqToSet(contrib[k].added) = KeywordSelection(calls[k], CallerKeywords)

\* C3: a batch whose classifier call threw contributes exactly the URLs of
\* the batch whose lower-cased form contains a configured keyword.
C3_ThrowUsesKeywords ==
    \A k \in 1..Len(contrib) :
        CallThrew(k) =>
            SeqToSet(contrib[k].added) = KeywordSelection(calls[k], CallerKeywords)

C3_Witness ==
    /\ fpc = "done"
    /\ \E k \in 1..Len(contrib) :
          /\ CallThrew(k)
          /\ contrib[k].ans.val = JsonList(<<UrlForeign>>)
          /\ UrlPrivacy \in SeqToSet(contrib[k].added)
          /\ UrlShop \in SeqToSet(calls[k])
          /\ UrlShop \notin SeqToSet(contrib[k].added)

\* C4: the filter never raises, whatever the classifier answers.
C4_FilterNeverRaises == fpc # "raised"

\* C5: every URL of the filter's output is one of its input URLs.
C5_OutputSubsetOfInput ==
    fpc = "done" => SeqToSet(result) \subseteq SeqToSet(urls)

\* C6: the list the filter returns holds no element twice.
C6_NoDuplicates == fpc = "done" => NoDuplicates(result)

C6_Witness ==
    /\ fpc = "done"
    /\ result # <<>>
    /\ \E a, b \in 1..Len(contrib) :
          /\ a # b
          /\ contrib[a].fallback
          /\ ~contrib[b].fallback
          /\ SeqToSet(contrib[a].added) \cap SeqToSet(contrib[b].added) # {}
    /\ \E k \in 1..Len(contrib) : ~NoDuplicates(contrib[k].added)

\* C7: the requests made so far are the first batches of the split of the
\* input into consecutive runs of at most 100 URLs, one request per batch,
\* and when the filter has finished there are ceil(n/100) of them.
C7_BatchesOnce ==
    mode = "llm" =>
        /\ \A k \in 1..Len(calls) :
              /\ 100 * (k - 1) < Len(urls)
              /\ calls[k] = SubSeq(urls, 100 * (k - 1) + 1, Min(100 * k, Len(urls)))
        /\ Finished => Len(calls) = (Len(urls) + 99) \div 100

C7_Witness ==
    /\ fpc = "done"
    /\ Len(urls) = 201
    /\ Len(calls) = 3
    /\ contrib[1].fallback
    /\ contrib[2].ans.status = 500

C9_EmptyInput ==
    /\ [](urls = <<>> => (calls = <<>> /\ result = <<>> /\ fpc # "raised"))
    /\ [][(urls = <<>> /\ fpc = "start") => (fpc' = "done" /\ result' = <<>>)]_vars

C9_Witness == urls = <<>> /\ mode = "llm" /\ fpc = "done"

----------------------------------------------------------------------------
(* Properties of the Sitemap Resolver.                                     *)

CandidateUrls == {CandidateUrl(base_url, k) : k \in 1..3}

\* Some candidate path answered with status 200.
CandidateAnswered ==
    \E k \in 1..Len(fetches) : fetches[k].ok /\ fetches[k].url \in CandidateUrls

\* C10: get_all_urls never raises, and the list it returns is empty when no
\* candidate answered with success and when the retrieved document is not
\* parseable.
C10_ResolverNeverRaises ==
    /\ spc # "raised"
    /\ spc = "done" =>
          /\ ~CandidateAnswered => sm_result = <<>>
          /\ (CandidateAnswered /\ sitemap_content.kind # "xml") => sm_result = <<>>

C10_Witness ==
    /\ spc = "done"
    /\ Len(fetches) = 2
    /\ ~fetches[1].ok
    /\ fetches[2].ok
    /\ sitemap_content.kind = "malformed"

\* The candidate paths the specification names, in its order.
ClaimedPaths == <<
    <<"/", "s", "i", "t", "e", "m", "a", "p", ".", "x", "m", "l">>,
    <<"/", "s", "i", "t", "e", "m", "a", "p", "_", "i", "n", "d", "e", "x", ".", "x", "m", "l">>,
    <<"/", "s", "i", "t", "e", "m", "a", "p", "-", "i", "n", "d", "e", "x", ".", "x", "m", "l">>
>>

\* The request was answered with status 200.
Succeeded(f) == f.out.kind = "http" /\ f.out.status = 200

\* The first of the (at most three) candidate requests that succeeded, 0
\* when none has.
FirstSuccess ==
    LET hits == {k \in 1..Min(3, Len(fetches)) : Succeeded(fetches[k])}
    IN  IF hits = {} THEN 0 ELSE SetMin(hits)

\* The number of requests fetch_sitemap has made.
CandidateCount ==
    IF FirstSuccess # 0 THEN FirstSuccess ELSE Min(3, Len(fetches))

\* C11: fetch_sitemap requests /sitemap.xml, /sitemap_index.xml and
\* /sitemap-index.xml in this order, the next one only after every earlier
\* one failed and each at most once; the body of the first success is what
\* it returns, no candidate is requested after it (every later request is
\* for an entry of the parsed document), and the body is never replaced or
\* combined with another.
C11_FirstSuccessWins ==
    /\ [](/\ \A k \in 1..CandidateCount :
                fetches[k].url = base_url \o ClaimedPaths[k]
          /\ FirstSuccess = 0 =>
                /\ Len(fetches) <= 3
                /\ Len(fetches) < 3 => spc = "fetch"
                /\ Len(fetches) = 3 => (spc = "done" /\ sm_result = <<>>)
          /\ FirstSuccess # 0 =>
                /\ spc # "fetch"
                /\ sitemap_content = fetches[FirstSuccess].out.body
                /\ \A k \in (FirstSuccess + 1)..Len(fetches) :
                      /\ k - FirstSuccess <= Len(sm_urls)
                      /\ fetches[k].url = sm_urls[k - FirstSuccess])
    /\ [][FirstSuccess # 0 =>
            (FirstSuccess' = FirstSuccess /\ sitemap_content' = sitemap_content)]_vars

C11_Witness ==
    /\ spc = "done"
    /\ FirstSuccess = 3
    /\ fetches[1].out.kind = "error"
    /\ fetches[2].out.status = 404
    /\ Len(fetches) = 5
    /\ sm_result # <<>>

\* s.endswith(suffix)
EndsWith(s, suffix) ==
    Len(s) >= Len(suffix) /\ SubSeq(s, Len(s) - Len(suffix) + 1, Len(s)) = suffix

\* The specification's test: the list is not empty and each of its first
\* five entries ends with the XML extension.
ClaimedIndex(list) ==
    /\ list # <<>>
    /\ \A k \in 1..Min(5, Len(list)) : EndsWith(list[k], DotXml)

\* C12: the parsed top-level list is expanded as an index exactly when it is
\* not empty and each of its first (up to five) entries ends with ".xml";
\* any other list is returned as it is, and none of its entries is fetched.
C12_IndexIffEndsWithXml ==
    /\ spc = "sub" => ClaimedIndex(sm_urls)
    /\ (spc = "done" /\ ClaimedIndex(sm_urls)) =>
          Len(fetches) = CandidateCount + Len(sm_urls)
    /\ (spc = "done" /\ ~ClaimedIndex(sm_urls)) =>
          (sm_result = sm_urls /\ Len(fetches) = CandidateCount)

\* The entries of the document fetch_sitemap returned.
TopEntries ==
    IF FirstSuccess = 0 THEN <<>>
    ELSE ParseSitemap(fetches[FirstSuccess].out.body).urls

\* C13: expansion happens once: every request after those of fetch_sitemap
\* is for the top-level entry at its position, never for an entry of a
\* sub-sitemap; there are at most 3 + (number of top-level entries)
\* requests; and get_all_urls returns.
C13_ExpandsOnce ==
    /\ [](/\ Len(fetches) <= 3 + Len(TopEntries)
          /\ \A k \in (CandidateCount + 1)..Len(fetches) :
                /\ k - CandidateCount <= Len(TopEntries)
                /\ fetches[k].url = TopEntries[k - CandidateCount])
    /\ <>(spc = "done")

C13_Witness ==
    /\ spc = "done"
    /\ TopEntries = <<TextSub, TextSelf>>
    /\ Len(fetches) = 5
    /\ ParseSitemap(fetches[4].out.body).urls = <<TextSub>>
    /\ Succeeded(fetches[5])
    /\ sm_result = <<TextSub>>

\* The loc entries the n-th listed sub-sitemap contributes: those of its
\* document when its fetch succeeded, none otherwise.
SubEntries(n) ==
    LET f == fetches[CandidateCount + n]
    IN  IF Succeeded(f) THEN ParseSitemap(f.out.body).urls ELSE <<>>

RECURSIVE FlattenSubs(_)
\* The concatenation of the contributions of the first n sub-sitemaps.
FlattenSubs(n) == IF n = 0 THEN <<>> ELSE FlattenSubs(n - 1) \o SubEntries(n)

\* C14: when the top-level document is taken as an index, every listed
\* sub-sitemap is requested, in index order, whether or not the ones before
\* it could be fetched, and the result is the concatenation, in that order,
\* of the loc entries of those whose fetch succeeded: empty when all fail,
\* and without the index's own entries.
C14_FlattensSucceededSubs ==
    (spc = "done" /\ FirstSuccess # 0 /\ IsIndex(TopEntries)) =>
        /\ Len(fetches) = CandidateCount + Len(TopEntries)
        /\ \A n \in 1..Len(TopEntries) :
              fetches[CandidateCount + n].url = TopEntries[n]
        /\ sm_result = FlattenSubs(Len(TopEntries))
        /\ (\A n \in 1..Len(TopEntries) : ~Succeeded(fetches[CandidateCount + n]))
              => sm_result = <<>>

C14_Witness ==
    /\ spc = "done"
    /\ FirstSuccess # 0
    /\ TopEntries = <<TextSub, TextMid>>
    /\ Len(fetches) = CandidateCount + 2
    /\ fetches[CandidateCount + 1].out.status = 404
    /\ Succeeded(fetches[CandidateCount + 2])
    /\ sm_result = <<UrlPrivacy>>

----------------------------------------------------------------------------
(* Properties of the candidate URLs.                                       *)

\* An absolute http:// or https:// URL.
AbsoluteHttp(u) == StartsWith(u, HttpScheme) \/ StartsWith(u, HttpsScheme)

\* C15: the list of candidate URLs handed to filter_urls, from the sitemap
\* or from the homepage, holds no entry twice, and each entry is an
\* absolute http:// or https:// URL.
C15_CandidatesDistinctAbsolute ==
    pc \in {"filter", "extract"} =>
        /\ urls = all_urls
        /\ NoDuplicates(all_urls)
        /\ \A k \in 1..Len(all_urls) : AbsoluteHttp(all_urls[k])

\* The places of the document whose anchor stands for the link u.
PlacesOf(u) ==
    {k \in 1..Len(html_content) : Resolved(html_content[k], start_url) = u}

\* C16: whatever the document and the base, every link the extraction
\* returns begins with http:// or https:// (a mailto: reference and an
\* "http" without "://" are dropped), no link is returned twice, the links
\* returned are all those of the document that begin so, and they stand in
\* the order in which each occurs first in the document.
C16_LinksAbsoluteDistinctOrdered ==
    lpc = "done" =>
        /\ \A k \in 1..Len(all_links) : AbsoluteHttp(all_links[k])
        /\ NoDuplicates(all_links)
        /\ SeqToSet(all_links) =
              {Resolved(h, start_url) : h \in
                  {g \in SeqToSet(html_content) : AbsoluteHttp(Resolved(g, start_url))}}
        /\ \A a, b \in 1..Len(all_links) :
              a < b => SetMin(PlacesOf(all_links[a])) < SetMin(PlacesOf(all_links[b]))

C16_Witness ==
    /\ lpc = "done"
    /\ start_url = SiteUrlSlash
    /\ html_content = <<HrefPrivacy, HrefMail, UrlPrivacy>>
    /\ all_links = <<UrlPrivacy>>

\* The scheme and host of a URL: the URL up to the first "/" after "://".
SchemeHost(u) ==
    LET seps == {k \in 1..(Len(u) - 2) : SubSeq(u, k, k + 2) = <<":", "/", "/">>}
        from == SetMin(seps) + 3
        slashes == {k \in from..Len(u) : u[k] = "/"}
    IN  IF slashes = {} THEN u ELSE SubSeq(u, 1, SetMin(slashes) - 1)

\* C17: for a reference that starts with "/", the extraction returns the
\* scheme and host of the base followed by the reference, also when the
\* base has a path of its own.
C17_PathAbsoluteOnSchemeHost ==
    lpc = "done" =>
        \A k \in 1..Len(html_content) :
            StartsWith(html_content[k], Slash) =>
                SchemeHost(start_url) \o html_content[k] \in SeqToSet(all_links)

----------------------------------------------------------------------------
(* Properties of the Query Router.                                         *)

\* The highest similarity of the retrieved set.
TopScore ==
    CHOOSE t \in {all_docs[k].similarity : k \in 1..Len(all_docs)} :
        \A k \in 1..Len(all_docs) : all_docs[k].similarity <= t

\* Some retrieved document reaches the retrieval threshold.
SomeAboveRetrieval ==
    \E k \in 1..Len(all_docs) : all_docs[k].similarity >= threshold

\* The routing decision has been taken.
Routed == rpc \in {"generate", "done"} /\ all_docs # <<>>

\* C18: with a non-empty retrieved set the router defers to external search
\* exactly when the highest similarity is strictly below routing_threshold
\* (so an equal one takes the RAG path), whatever retrieval_threshold,
\* limit, verbosity and the other scores are.
C18_DefersIffBelowRouting ==
    Routed => (outcome = "search" <=> TopScore < routing_threshold)

C18_Witness ==
    /\ rpc = "done"
    /\ Len(all_docs) = 2
    /\ TopScore = routing_threshold
    /\ all_docs[1].similarity < routing_threshold
    /\ verbose
    /\ outcome = "answer"

\* The outcomes that end ask_question before the RAG announcement.
NoAnswerOutcomes == {"corpus_empty", "search", "warning"}

\* C19: a generation call is only issued after a non-empty retrieved set
\* whose highest similarity is >= routing_threshold and one of whose
\* documents is >= retrieval_threshold; the corpus-empty, defer-to-search
\* and configuration-warning outcomes come without a generation call, and
\* none follows them.
C19_GenerationOnlyOnRagPath ==
    /\ [](/\ generations # <<>> =>
                /\ all_docs # <<>>
                /\ TopScore >= routing_threshold
                /\ SomeAboveRetrieval
          /\ outcome \in NoAnswerOutcomes => generations = <<>>)
    /\ [][(outcome \in NoAnswerOutcomes) => (generations' = <<>>)]_vars

C19_Witness ==
    /\ rpc = "done"
    /\ Len(generations) = 1
    /\ outcome = "answer"
    /\ Len(all_docs) = 2
    /\ all_docs[2].similarity < threshold
    /\ threshold < routing_threshold

\* The case of the warning: the routing check passed, and no retrieved
\* document reaches the retrieval threshold.
WarningCase ==
    /\ all_docs # <<>>
    /\ TopScore >= routing_threshold
    /\ ~SomeAboveRetrieval

\* C20: when the highest similarity is >= routing_threshold and no retrieved
\* document is >= retrieval_threshold, ask_question ends with the warning,
\* an outcome that it reports in this case only; a retrieval_threshold
\* above routing_threshold is taken as given: no threshold is ever changed.
C20_WarningOutcome ==
    /\ [](rpc \in {"generate", "done"} => (outcome = "warning" <=> WarningCase))
    /\ [][threshold' = threshold /\ routing_threshold' = routing_threshold]_vars

C20_Witness ==
    /\ rpc = "done"
    /\ outcome = "warning"
    /\ threshold > routing_threshold
    /\ TopScore = routing_threshold
    /\ generations = <<>>

\* The non-empty values of the loc elements that the lookup of one namespace
\* finds in the retrieved document, in document order.
LocValues(ns) ==
    LET found == SelectSeq(sitemap_content.locs,
                           LAMBDA l : l.ns = ns /\ l.has /\ Strip(l.text) # <<>>)
    IN  [k \in 1..Len(found) |-> Strip(found[k].text)]

\* C25: parse_sitemap returns the non-empty loc values of the namespaced
\* lookup when there is at least one, and those of the lookup without
\* namespace only when there is none; the result is the values of one lookup
\* alone, in document order.
C25_NamespacedFirst ==
    (spc \in {"sub", "done"} /\ sitemap_content.kind = "xml") =>
        LET namespaced == LocValues("sm")
        IN  /\ namespaced # <<>> => sm_urls = namespaced
            /\ namespaced = <<>> => sm_urls = LocValues("none")

C25_Witness ==
    /\ spc = "done"
    /\ sitemap_content = Body("xml", <<Loc("none", TRUE, UrlShop),
                                       Loc("sm", TRUE, TextPrivacy)>>)
    /\ sm_urls = <<UrlPrivacy>>

----------------------------------------------------------------------------
(* Further properties of the Query Router.                                 *)

\* C21: in the RAG outcome the context of the generation call is exactly the
\* documents of the set retrieved in step 1 whose similarity is >=
\* retrieval_threshold, the same documents as the source list (docs) printed
\* with the answer; it is never empty, and no lookup of the similarity store
\* is made after the routing decision.
C21_ContextIsFilteredSet ==
    outcome = "answer" =>
        /\ docs = Docs(all_docs, threshold)
        /\ generations = <<docs>>
        /\ generations[1] # <<>>
        /\ Len(lookups) = 1

\* The routing check passed: the highest similarity reaches routing_threshold.
PassedRouting == Routed /\ TopScore >= routing_threshold

LookupFailed == \E n \in 1..Len(lookups) : lookups[n].failure # "none"

\* C27: a failure inside a lookup of the similarity store (no embedding
\* model, no connection, no embedding, a query error) comes back as an empty
\* list and raises nothing, so that ask_question ends in the corpus-empty
\* outcome without a generation call and without an error.
C27_LookupFailureIsCorpusEmpty ==
    /\ \A n \in 1..Len(lookups) :
          lookups[n].failure # "none" =>
              lookups[n].rows = <<>> /\ ~lookups[n].raised
    /\ (rpc = "done" /\ LookupFailed) =>
          outcome = "corpus_empty" /\ generations = <<>>

----------------------------------------------------------------------------
(* Properties of main and of the scrape run.                               *)

\* C22: when main returns or is left, the scrape of every listed site has
\* been started, in the order of the file, whatever happened in the sites
\* before it.
C22_EverySiteStarted ==
    /\ \A k \in 1..Len(started) : started[k] = targets[k]
    /\ mpc \in {"done", "raised"} => started = targets

\* The extraction loop of the run is over.
Extracted == pc \in {"save_db", "save_files", "done"}

\* The pages of the visits that returned content, in the order of the visits.
VisitedContent ==
    LET got == SelectSeq(visits, LAMBDA v : v.got)
    IN  [k \in 1..Len(got) |-> Content(got[k].url)]

\* C23: extract is called for the relevant URLs one at a time in the order of
\* the list, once for each; scraped_data is the pages of the calls that
\* returned content, in that order; a call that returns nothing is followed
\* by the calls for the URLs after it.
C23_ExtractionInOrder ==
    /\ Len(visits) = idx
    /\ idx <= Len(relevant_urls)
    /\ \A k \in 1..Len(visits) : visits[k].url = relevant_urls[k]
    /\ scraped_data = VisitedContent
    /\ Extracted => Len(visits) = Len(relevant_urls)

C23_Witness ==
    /\ pc = "done"
    /\ Len(relevant_urls) = 2
    /\ Len(visits) = 2
    /\ ~visits[1].got
    /\ visits[2].got
    /\ scraped_data = <<Content(relevant_urls[2])>>

\* The homepage of the fallback was not fetched, or none of its references
\* is path-absolute or an http(s) URL.
HomepageEmpty ==
    /\ homepage_log # <<>>
    /\ \/ ~homepage_log[1].success
       \/ \A k \in 1..Len(homepage_log[1].html) :
             LET href == homepage_log[1].html[k]
             IN  /\ ~StartsWith(href, Slash)
                 /\ ~StartsWith(href, HttpScheme)
                 /\ ~StartsWith(href, HttpsScheme)

\* C24: when the homepage fetch of the fallback fails or the homepage has no
\* usable link, the candidate sequence is empty, no classifier call is
\* issued, no page is extracted, and the run of the site ends with "no
\* content" and raises nothing.
C24_EmptyHomepageNoContent ==
    HomepageEmpty =>
        /\ all_urls = <<>>
        /\ calls = <<>>
        /\ visits = <<>>
        /\ pc \notin {"raised", "save_db", "save_files"}
        /\ pc = "done" =>
              /\ outcomes[Len(outcomes)].run = Len(started)
              /\ outcomes[Len(outcomes)].ended = "no_content"
              /\ \A k \in 1..Len(files) : files[k].run # Len(started)

C24_Witness ==
    /\ pc = "done"
    /\ mode = "llm"
    /\ homepage_log = <<Page(TRUE, <<HrefMail>>)>>
    /\ Len(started) = 2
    /\ outcomes[Len(outcomes)] = [run |-> 2, pages |-> <<>>, ended |-> "no_content"]

\* The run wrote its files, and the run called save_all.
WroteFiles(run) == \E k \in 1..Len(files) : files[k].run = run
SavedToDatabase(run) == \E k \in 1..Len(db_saves) : db_saves[k].run = run

----------------------------------------------------------------------------
(* Properties of the DatabaseHandler.                                      *)

\* C29: once save_all, search_similar or get_session_stats has returned, by
\* whatever path, conn is None, after any sequence of these operations; an
\* operation opens at most one connection.
C29_NoConnectionLeftOpen ==
    /\ dpc \in {"idle", "returned"} => conn = "None"
    /\ opened <= 1
    /\ conn = "open" => opened = 1

C29_Witness ==
    /\ dpc = "returned"
    /\ ops >= 2
    /\ op.name = "save_all"
    /\ opened = 1
    /\ returned = "False"
    /\ scrape_sessions = before.sessions
    /\ conn = "None"

\* The ids of the committed sessions.
SessionIds == {scrape_sessions[k].id : k \in 1..Len(scrape_sessions)}

\* C30: save_all returns True only with the session row and every page row
\* of the call committed; page rows belong to a committed session; and
\* after it returned False the committed rows are those from before the
\* call.
C30_SaveAllOrNothing ==
    /\ \A k \in 1..Len(scraped_pages) : scraped_pages[k].session_id \in SessionIds
    /\ (dpc = "returned" /\ op.name = "save_all" /\ returned = "True") =>
          /\ scrape_sessions =
                Append(before.sessions,
                       SessionRow(session_id, op.website_url, op.data))
          /\ Len(scraped_pages) = Len(before.pages) + Len(op.data)
          /\ \A k \in 1..Len(op.data) :
                LET row == scraped_pages[Len(before.pages) + k]
                IN  row.session_id = session_id /\ row.url = op.data[k].url
    /\ (dpc = "returned" /\ op.name = "save_all" /\ returned = "False") =>
          /\ scrape_sessions = before.sessions
          /\ scraped_pages = before.pages

====
